---- MODULE Spec2Model ----
(***************************************************************************)
(* Shared-folder registry and exposure resolver of the Trinity backend     *)
(* (src/src/backend/db/shared_folders.py), as a state machine.             *)
(*                                                                         *)
(* The registry is the table agent_shared_folder_config.  Every            *)
(* cursor.execute / conn.commit pair of a method is one atomic step of the *)
(* storage layer; upsert_shared_folder_config is two steps (its SELECT,    *)
(* then its UPDATE or INSERT with the commit), so other callers may run    *)
(* between them.  The Permission Directory is an external relation that    *)
(* the resolver only reads.                                                *)
(*                                                                         *)
(* The system settings (src/src/backend/db/settings.py behind the routes   *)
(* of src/src/backend/routers/settings.py) are a second table; a request   *)
(* to a settings route is one step.                                        *)
(*                                                                         *)
(* The agent server's Trinity injection                                    *)
(* (src/docker/base-image/agent_server/routers/trinity.py) works on the    *)
(* files of one workspace directory; its handlers contain no await, so a   *)
(* request is one step.  The backend's file browser                        *)
(* (src/src/backend/services/agent_service/files.py) is a request that     *)
(* passes through its checks step by step.                                 *)
(***************************************************************************)
EXTENDS Integers, Sequences, FiniteSets, Bags, TLC

\* ------------------------------------------------------------------ bounds

\* Largest value of the wall clock (datetime.utcnow) a behaviour reaches.
MaxTime == 1

\* ------------------------------------------------------------------ values

\* Agent names are strings; a name is the sequence of its character codes, so
\* that ORDER BY agent_name is a real comparison.  "a", "ab", "b".
AgentNames == { <<97>>, <<97, 98>>, <<98>> }

\* Concurrent callers of the registry (request threads).
Procs == { "p1", "p2" }

\* Optional[bool] / Optional[row]: None is the empty sequence, a value v is <<v>>.
None == << >>
Some(v) == << v >>
OptBool == { None, Some(TRUE), Some(FALSE) }

\* sqlite3 stores a Python bool as the integer 0 or 1; bool(row[...]) reads it back.
BoolToInt(b) == IF b THEN 1 ELSE 0
IntToBool(i) == i # 0

\* Binary collation of two strings: s sorts before or equal to t.
RECURSIVE LexLE(_, _)
LexLE(s, t) ==
    IF s = << >> THEN TRUE
    ELSE IF t = << >> THEN FALSE
    ELSE IF Head(s) # Head(t) THEN Head(s) < Head(t)
    ELSE LexLE(Tail(s), Tail(t))

\* The permission relations a behaviour may start with: none, the spec's
\* example shape (two callers reaching one target), a cycle with a self edge,
\* and the full relation.
PermissionChoices ==
    { {},
      { << <<97, 98>>, <<97>> >>, << <<98>>, <<97>> >> },
      { << <<97>>, <<97>> >>, << <<97>>, <<97, 98>> >>,
        << <<97, 98>>, <<98>> >>, << <<98>>, <<97>> >> },
      AgentNames \X AgentNames }

VARIABLES
    table,       \* agent_shared_folder_config: a bag of rows
    permission,  \* Permission Directory: set of <<caller, target>>
    clock,       \* wall clock read by datetime.utcnow()
    call,        \* per caller: idle, or inside upsert after its SELECT
    settings,    \* system_settings: a bag of rows (key, value, updated_at)
    workspace,   \* the agent's workspace directory and the meta-prompt mount
    last         \* the call that completed in the latest step, with its result

vars == << table, permission, clock, call, settings, workspace, last >>

\* ------------------------------------------------------------------ storage

Row(a, e, c, cr, up) ==
    [ agent_name |-> a, expose_enabled |-> e, consume_enabled |-> c,
      created_at |-> cr, updated_at |-> up ]

Rows(t) == BagToSet(t)

RowsOf(t, a) == { r \in Rows(t) : r.agent_name = a }

RECURSIVE SumCopies(_, _)
SumCopies(t, S) ==
    IF S = {} THEN 0
    ELSE LET r == CHOOSE x \in S : TRUE
         IN  CopiesIn(r, t) + SumCopies(t, S \ {r})

\* Number of rows of agent a (rows, not distinct contents).
CountOf(t, a) == SumCopies(t, RowsOf(t, a))

\* The bag t restricted to the rows in keep (the rows a WHERE clause selects).
Restrict(t, keep) == [ r \in keep |-> t[r] ]

\* Variant: a table without the key constraint accepts every INSERT.
KeyViolation_unchecked(t, a) == FALSE

\* agent_name is the table's key: an INSERT of a name that already has a row
\* is refused by the storage layer (sqlite3.IntegrityError).
KeyViolation(t, a) == RowsOf(t, a) # {}

\* cursor.fetchone() of SELECT ... WHERE agent_name = ?
FetchOne(t, a) ==
    IF RowsOf(t, a) = {} THEN None
    ELSE Some(CHOOSE r \in RowsOf(t, a) : TRUE)

\* Variant: the UPDATE without its WHERE clause writes every row.
SqlUpdate_all(t, a, e, c, now) ==
    LET Upd(r) == [ r EXCEPT !.expose_enabled = e, !.consume_enabled = c,
                             !.updated_at = now ]
    IN  [ x \in { Upd(r) : r \in Rows(t) } |->
            SumCopies(t, { r \in Rows(t) : Upd(r) = x }) ]

\* Variant: the UPDATE without updated_at = ? in its SET list.
SqlUpdate_stale_updated_at(t, a, e, c, now) ==
    LET Upd(r) == [ r EXCEPT !.expose_enabled = e, !.consume_enabled = c ]
        hit    == RowsOf(t, a)
        kept   == Restrict(t, { r \in Rows(t) : r.agent_name # a })
        moved  == [ x \in { Upd(r) : r \in hit } |->
                      SumCopies(t, { r \in hit : Upd(r) = x }) ]
    IN  kept (+) moved

\* UPDATE ... SET expose_enabled, consume_enabled, updated_at WHERE agent_name = ?
SqlUpdate(t, a, e, c, now) ==
    LET Upd(r) == [ r EXCEPT !.expose_enabled = e, !.consume_enabled = c,
                             !.updated_at = now ]
        hit    == RowsOf(t, a)
        kept   == Restrict(t, { r \in Rows(t) : r.agent_name # a })
        moved  == [ x \in { Upd(r) : r \in hit } |->
                      SumCopies(t, { r \in hit : Upd(r) = x }) ]
    IN  kept (+) moved

\* INSERT INTO agent_shared_folder_config VALUES (?, ?, ?, ?, ?)
SqlInsert(t, a, e, c, now) == t (+) SetToBag({ Row(a, e, c, now, now) })

\* Variant: the DELETE without conn.commit(); the connection closes and the
\* row stays.
SqlDelete_uncommitted(t, a) == t

\* DELETE FROM agent_shared_folder_config WHERE agent_name = ?
SqlDelete(t, a) == Restrict(t, { r \in Rows(t) : r.agent_name # a })

\* Variant: ORDER BY agent_name DESC.
RECURSIVE OrderByName_desc(_)
OrderByName_desc(t) ==
    IF Rows(t) = {} THEN << >>
    ELSE LET m == CHOOSE r \in Rows(t) :
                    \A q \in Rows(t) : LexLE(q.agent_name, r.agent_name)
         IN  << m.agent_name >> \o OrderByName_desc(t (-) SetToBag({ m }))

\* SELECT agent_name ... ORDER BY agent_name over the rows satisfying Where:
\* one name per row, in ascending binary order.
RECURSIVE OrderByName(_)
OrderByName(t) ==
    IF Rows(t) = {} THEN << >>
    ELSE LET m == CHOOSE r \in Rows(t) :
                    \A q \in Rows(t) : LexLE(r.agent_name, q.agent_name)
         IN  << m.agent_name >> \o OrderByName(t (-) SetToBag({ m }))

\* ------------------------------------------------------------------ upsert

Idle == [ pc |-> "idle" ]
NoCall == [ op |-> "none" ]

\* Variant: an unprovided expose flag falls back to the default, not to the row.
new_expose_update_reset(expose_enabled, existing) ==
    IF expose_enabled # None THEN expose_enabled[1] ELSE FALSE

new_expose_update(expose_enabled, existing) ==
    IF expose_enabled # None THEN expose_enabled[1]
    ELSE IntToBool(existing.expose_enabled)

new_consume_update(consume_enabled, existing) ==
    IF consume_enabled # None THEN consume_enabled[1]
    ELSE IntToBool(existing.consume_enabled)

\* Variant: a new row exposes unless told otherwise.
new_expose_insert_true(expose_enabled) ==
    IF expose_enabled # None THEN expose_enabled[1] ELSE TRUE

new_expose_insert(expose_enabled) ==
    IF expose_enabled # None THEN expose_enabled[1] ELSE FALSE

new_consume_insert(consume_enabled) ==
    IF consume_enabled # None THEN consume_enabled[1] ELSE FALSE

SharedFolderConfig(a, e, c, cr, up) ==
    [ agent_name |-> a, expose_enabled |-> e, consume_enabled |-> c,
      created_at |-> cr, updated_at |-> up ]

\* upsert_shared_folder_config, lines 68-79: read the clock, SELECT the row.
UpsertSelect(p, a, e, c) ==
    /\ call[p] = Idle
    /\ call' = [ call EXCEPT ![p] =
                   [ pc |-> "selected", agent_name |-> a,
                     expose_enabled |-> e, consume_enabled |-> c,
                     now |-> clock, existing |-> FetchOne(table, a) ] ]
    /\ last' = NoCall
    /\ UNCHANGED << workspace, settings, table, permission, clock >>

\* lines 81-99: the row existed at the SELECT: UPDATE, commit, return.
UpsertUpdate(p) ==
    LET f == call[p] IN
    /\ f.pc = "selected"
    /\ f.existing # None
    /\ LET ex  == f.existing[1]
           ne  == new_expose_update(f.expose_enabled, ex)
           nc  == new_consume_update(f.consume_enabled, ex)
       IN  /\ table' = SqlUpdate(table, f.agent_name, BoolToInt(ne), BoolToInt(nc), f.now)
           /\ last' = [ op |-> "upsert", branch |-> "update",
                        agent_name |-> f.agent_name,
                        expose_enabled |-> f.expose_enabled,
                        consume_enabled |-> f.consume_enabled,
                        raised |-> FALSE,
                        result |-> SharedFolderConfig(f.agent_name, ne, nc,
                                                      ex.created_at, f.now) ]
    /\ call' = [ call EXCEPT ![p] = Idle ]
    /\ UNCHANGED << workspace, settings, permission, clock >>

\* lines 100-118: no row at the SELECT: INSERT, commit, return.
UpsertInsert(p) ==
    LET f == call[p] IN
    /\ f.pc = "selected"
    /\ f.existing = None
    /\ LET ne == new_expose_insert(f.expose_enabled)
           nc == new_consume_insert(f.consume_enabled)
           ok == ~KeyViolation(table, f.agent_name)
       IN  /\ table' = IF ok
                       THEN SqlInsert(table, f.agent_name, BoolToInt(ne), BoolToInt(nc), f.now)
                       ELSE table
           /\ last' = [ op |-> "upsert", branch |-> "insert",
                        agent_name |-> f.agent_name,
                        expose_enabled |-> f.expose_enabled,
                        consume_enabled |-> f.consume_enabled,
                        raised |-> ~ok,
                        result |-> SharedFolderConfig(f.agent_name, ne, nc,
                                                      f.now, f.now) ]
    /\ call' = [ call EXCEPT ![p] = Idle ]
    /\ UNCHANGED << workspace, settings, permission, clock >>

\* The storage layer fails while the write of lines 86-91 or 105-110 executes
\* or commits: the sqlite3 error leaves the method uncaught, the connection
\* closes without a commit and nothing is returned.
UpsertCommitFails(p) ==
    LET f == call[p] IN
    /\ f.pc = "selected"
    /\ last' = [ op |-> "upsert", branch |-> "failed",
                 agent_name |-> f.agent_name,
                 expose_enabled |-> f.expose_enabled,
                 consume_enabled |-> f.consume_enabled,
                 raised |-> TRUE ]
    /\ call' = [ call EXCEPT ![p] = Idle ]
    /\ UNCHANGED << workspace, settings, table, permission, clock >>

\* ------------------------------------------------------------------ delete

\* Variant: return cursor.rowcount >= 0.
Delete_rowcount_ge0(a) ==
    LET rowcount == CountOf(table, a) IN
    /\ table' = SqlDelete(table, a)
    /\ last' = [ op |-> "delete", agent_name |-> a, result |-> rowcount >= 0 ]
    /\ UNCHANGED << workspace, settings, permission, clock, call >>

\* delete_shared_folder_config: DELETE, commit, return cursor.rowcount > 0.
Delete(a) ==
    LET rowcount == CountOf(table, a) IN
    /\ table' = SqlDelete(table, a)
    /\ last' = [ op |-> "delete", agent_name |-> a, result |-> rowcount > 0 ]
    /\ UNCHANGED << workspace, settings, permission, clock, call >>

\* ------------------------------------------------------------------ queries

\* get_shared_folder_config: SELECT the row, _row_to_config, or None.
_row_to_config(row) ==
    SharedFolderConfig(row.agent_name, IntToBool(row.expose_enabled),
                       IntToBool(row.consume_enabled), row.created_at, row.updated_at)

\* Variant: a missing row is answered with a default config.
get_shared_folder_config_default(t, a) ==
    LET row == FetchOne(t, a)
    IN  IF row # None THEN Some(_row_to_config(row[1]))
        ELSE Some(SharedFolderConfig(a, FALSE, FALSE, 0, 0))

get_shared_folder_config(t, a) ==
    LET row == FetchOne(t, a)
    IN  IF row # None THEN Some(_row_to_config(row[1])) ELSE None

\* Variant: get-or-create, a missing row is inserted with the defaults.
Get_or_create(a) ==
    /\ last' = [ op |-> "get", agent_name |-> a,
                 result |-> get_shared_folder_config(table, a) ]
    /\ table' = IF RowsOf(table, a) = {} THEN SqlInsert(table, a, 0, 0, clock)
                ELSE table
    /\ UNCHANGED << workspace, settings, permission, clock, call >>

Get(a) ==
    /\ last' = [ op |-> "get", agent_name |-> a,
                 result |-> get_shared_folder_config(table, a) ]
    /\ UNCHANGED << workspace, settings, table, permission, clock, call >>

\* get_agents_exposing_folders: SELECT ... WHERE expose_enabled = 1 ORDER BY agent_name
get_agents_exposing_folders(t) ==
    OrderByName(Restrict(t, { r \in Rows(t) : r.expose_enabled = 1 }))

ListExposing ==
    /\ last' = [ op |-> "list", result |-> get_agents_exposing_folders(table) ]
    /\ UNCHANGED << workspace, settings, table, permission, clock, call >>

\* One Permission Directory lookup, self._permission_ops.is_permitted(caller,
\* target): it raises when the directory fails for that pair, else it answers
\* membership.  No caller in shared_folders.py catches the exception.
Raises(failing, caller, target) == << caller, target >> \in failing
is_permitted(perm, caller, target) == << caller, target >> \in perm

Returned(v) == [ raised |-> FALSE, value |-> v ]
Raised == [ raised |-> TRUE ]

\* Variant: the loop without the agent != requesting_agent test.
RECURSIVE AvailableLoop_noself(_, _, _, _, _)
AvailableLoop_noself(exposing_agents, requesting_agent, perm, failing, available) ==
    IF exposing_agents = << >> THEN Returned(available)
    ELSE LET agent == Head(exposing_agents)
             rest  == Tail(exposing_agents)
         IN  IF Raises(failing, requesting_agent, agent) THEN Raised
             ELSE IF is_permitted(perm, requesting_agent, agent)
                  THEN AvailableLoop_noself(rest, requesting_agent, perm, failing,
                                            Append(available, agent))
                  ELSE AvailableLoop_noself(rest, requesting_agent, perm, failing,
                                            available)

\* Variant: the loop asking is_permitted(agent, requesting_agent).
RECURSIVE AvailableLoop_swapped(_, _, _, _, _)
AvailableLoop_swapped(exposing_agents, requesting_agent, perm, failing, available) ==
    IF exposing_agents = << >> THEN Returned(available)
    ELSE LET agent == Head(exposing_agents)
             rest  == Tail(exposing_agents)
         IN  IF agent # requesting_agent
             THEN IF Raises(failing, requesting_agent, agent) THEN Raised
                  ELSE IF is_permitted(perm, agent, requesting_agent)
                       THEN AvailableLoop_swapped(rest, requesting_agent, perm, failing,
                                                  Append(available, agent))
                       ELSE AvailableLoop_swapped(rest, requesting_agent, perm, failing,
                                                  available)
             ELSE AvailableLoop_swapped(rest, requesting_agent, perm, failing, available)

\* Variant: the loop with the lookup wrapped in try/except, skipping the
\* candidate whose lookup raised.
RECURSIVE AvailableLoop_guarded(_, _, _, _, _)
AvailableLoop_guarded(exposing_agents, requesting_agent, perm, failing, available) ==
    IF exposing_agents = << >> THEN Returned(available)
    ELSE LET agent == Head(exposing_agents)
             rest  == Tail(exposing_agents)
         IN  IF /\ agent # requesting_agent
                /\ ~Raises(failing, requesting_agent, agent)
                /\ is_permitted(perm, requesting_agent, agent)
             THEN AvailableLoop_guarded(rest, requesting_agent, perm, failing,
                                        Append(available, agent))
             ELSE AvailableLoop_guarded(rest, requesting_agent, perm, failing,
                                        available)

\* The loop of get_available_shared_folders, lines 169-176.
RECURSIVE AvailableLoop(_, _, _, _, _)
AvailableLoop(exposing_agents, requesting_agent, perm, failing, available) ==
    IF exposing_agents = << >> THEN Returned(available)
    ELSE LET agent == Head(exposing_agents)
             rest  == Tail(exposing_agents)
         IN  IF agent # requesting_agent
             THEN IF Raises(failing, requesting_agent, agent) THEN Raised
                  ELSE IF is_permitted(perm, requesting_agent, agent)
                       THEN AvailableLoop(rest, requesting_agent, perm, failing,
                                          Append(available, agent))
                       ELSE AvailableLoop(rest, requesting_agent, perm, failing,
                                          available)
             ELSE AvailableLoop(rest, requesting_agent, perm, failing, available)

get_available_shared_folders(t, perm, failing, requesting_agent) ==
    AvailableLoop(get_agents_exposing_folders(t), requesting_agent, perm,
                  failing, << >>)

\* Variant: the loop asking is_permitted(source_agent, agent).
RECURSIVE ConsumingLoop_swapped(_, _, _, _, _)
ConsumingLoop_swapped(consuming_agents, source_agent, perm, failing, available) ==
    IF consuming_agents = << >> THEN Returned(available)
    ELSE LET agent == Head(consuming_agents)
             rest  == Tail(consuming_agents)
         IN  IF Raises(failing, agent, source_agent) THEN Raised
             ELSE IF is_permitted(perm, source_agent, agent)
                  THEN ConsumingLoop_swapped(rest, source_agent, perm, failing,
                                             Append(available, agent))
                  ELSE ConsumingLoop_swapped(rest, source_agent, perm, failing,
                                             available)

\* The loop of get_consuming_agents, lines 198-203.
RECURSIVE ConsumingLoop(_, _, _, _, _)
ConsumingLoop(consuming_agents, source_agent, perm, failing, available) ==
    IF consuming_agents = << >> THEN Returned(available)
    ELSE LET agent == Head(consuming_agents)
             rest  == Tail(consuming_agents)
         IN  IF Raises(failing, agent, source_agent) THEN Raised
             ELSE IF is_permitted(perm, agent, source_agent)
                  THEN ConsumingLoop(rest, source_agent, perm, failing,
                                     Append(available, agent))
                  ELSE ConsumingLoop(rest, source_agent, perm, failing, available)

get_consuming_agents(t, perm, failing, source_agent) ==
    ConsumingLoop(
        OrderByName(Restrict(t, { r \in Rows(t) : r.consume_enabled = 1
                                                   /\ r.agent_name # source_agent })),
        source_agent, perm, failing, << >>)

\* The pairs whose lookup fails during one query: none, or every lookup that
\* involves one agent as the other party.
FailChoices(a) ==
    { {} } \cup { { << a, x >>, << x, a >> } : x \in AgentNames \ { a } }

Available(a, failing) ==
    /\ last' = [ op |-> "available", agent_name |-> a, failing |-> failing,
                 result |-> get_available_shared_folders(table, permission, failing, a) ]
    /\ UNCHANGED << workspace, settings, table, permission, clock, call >>

Consumers(s, failing) ==
    /\ last' = [ op |-> "consumers", agent_name |-> s, failing |-> failing,
                 result |-> get_consuming_agents(table, permission, failing, s) ]
    /\ UNCHANGED << workspace, settings, table, permission, clock, call >>

\* ------------------------------------------------------------------ clock

\* Time passes between two readings of datetime.utcnow().
Tick ==
    /\ clock < MaxTime
    /\ clock' = clock + 1
    /\ last' = NoCall
    /\ UNCHANGED << workspace, settings, table, permission, call >>

\* ------------------------------------------------------------------ naming
\* Strings are sequences of character codes, as for agent names.
MaxNameLen == 2

\* 'a', '-' and '/': a letter, the separator of the volume name and the
\* separator of the mount path.
NameChars == { 97, 45, 47 }

NameInputs == UNION { [ 1..n -> NameChars ] : n \in 1..MaxNameLen }

\* "agent-"
VolumePrefix == << 97, 103, 101, 110, 116, 45 >>

\* "-shared"
VolumeSuffix == << 45, 115, 104, 97, 114, 101, 100 >>

\* "/home/developer/shared-in/"
MountPrefix ==
    << 47, 104, 111, 109, 101, 47, 100, 101, 118, 101, 108, 111, 112, 101, 114, 47, 115, 104, 97, 114, 101, 100, 45, 105, 110, 47 >>

get_shared_volume_name_head(agent_name) ==
    VolumePrefix \o << Head(agent_name) >> \o VolumeSuffix

\* f"agent-{agent_name}-shared"
get_shared_volume_name(agent_name) ==
    VolumePrefix \o agent_name \o VolumeSuffix

\* f"/home/developer/shared-in/{source_agent}"
get_shared_mount_path(source_agent) ==
    MountPrefix \o source_agent

\* One step calls the function for two agent names and records both answers.
VolumeNames(x, y) ==
    /\ last' = [ op |-> "volume_name", x |-> x, y |-> y,
                 of_x |-> get_shared_volume_name(x),
                 of_y |-> get_shared_volume_name(y) ]
    /\ UNCHANGED << workspace, table, permission, clock, call, settings >>

MountPaths(x, y) ==
    /\ last' = [ op |-> "mount_path", x |-> x, y |-> y,
                 of_x |-> get_shared_mount_path(x),
                 of_y |-> get_shared_mount_path(y) ]
    /\ UNCHANGED << workspace, table, permission, clock, call, settings >>


\* ------------------------------------------------------------------ settings
\* System settings: the table system_settings (src/src/backend/db/settings.py)
\* behind the routes of src/src/backend/routers/settings.py.  A request is one
\* step: the handlers are called with an authenticated user, make one call of
\* the storage layer and answer.

\* Setting keys, as character codes for ORDER BY key: "k", "t".
SettingKeys == { <<107>>, <<116>> }

\* Setting values; the empty string is a value like any other.
SettingValues == { "", "v1", "v2" }

\* current_user.role of the authenticated user.
Roles == { "admin", "user" }

SettingRow(key, value, updated_at) ==
    [ key |-> key, value |-> value, updated_at |-> updated_at ]

SettingRows(t, key) == { r \in Rows(t) : r.key = key }

\* SystemSetting(key, value, updated_at) of a row.
_row_to_setting(row) ==
    [ key |-> row.key, value |-> row.value, updated_at |-> row.updated_at ]

\* SELECT ... WHERE key = ?, fetchone: None if the setting does not exist.
db_get_setting(t, key) ==
    IF SettingRows(t, key) = {} THEN None
    ELSE Some(_row_to_setting(CHOOSE r \in SettingRows(t, key) : TRUE))

\* key is the key of system_settings: the rows a new row of this key
\* conflicts with, which INSERT OR REPLACE deletes before it inserts.
SettingConflicts(t, key) == SettingRows(t, key)

\* Variant: INSERT OR IGNORE keeps the row that is already there.
SqlInsertOrReplace_ignore(t, key, value, now) ==
    IF SettingConflicts(t, key) # {} THEN t
    ELSE t (+) SetToBag({ SettingRow(key, value, now) })

\* INSERT OR REPLACE INTO system_settings (key, value, updated_at)
SqlInsertOrReplace(t, key, value, now) ==
    Restrict(t, Rows(t) \ SettingConflicts(t, key))
      (+) SetToBag({ SettingRow(key, value, now) })

\* set_setting: the table after the commit and the SystemSetting returned.
db_set_setting(t, key, value, now) ==
    [ table  |-> SqlInsertOrReplace(t, key, value, now),
      result |-> SettingRow(key, value, now) ]

\* Variant: the DELETE without its WHERE clause.
SqlDeleteSetting_all(t, key) == EmptyBag

\* DELETE FROM system_settings WHERE key = ?
SqlDeleteSetting(t, key) == Restrict(t, { r \in Rows(t) : r.key # key })

\* delete_setting: the table after the commit and cursor.rowcount > 0.
db_delete_setting(t, key) ==
    [ table  |-> SqlDeleteSetting(t, key),
      result |-> SumCopies(t, SettingRows(t, key)) > 0 ]

\* SELECT ... ORDER BY key: one SystemSetting per row, ascending by key.
RECURSIVE db_get_all_settings(_)
db_get_all_settings(t) ==
    IF Rows(t) = {} THEN << >>
    ELSE LET m == CHOOSE r \in Rows(t) : \A q \in Rows(t) : LexLE(r.key, q.key)
         IN  << _row_to_setting(m) >> \o db_get_all_settings(t (-) SetToBag({ m }))

\* require_admin passes (does not raise 403).
require_admin(role) == role = "admin"

\* What leaves a handler's try block: a returned body, an HTTPException with
\* its status, or another exception (raised by the storage layer).
Return(body) == [ kind |-> "return", body |-> body ]
RaiseHTTP(status) == [ kind |-> "HTTPException", status |-> status ]
RaiseError == [ kind |-> "Exception" ]

\* An audit event of a handler: action and result.
Audit(action, result) == Some([ action |-> action, result |-> result ])

Response(status, body, audit) ==
    [ status |-> status, body |-> body, audit |-> audit ]

Forbidden == Response(403, None, None)

\* GET /api/settings.  dbfail: the storage layer raises during the call.
get_all_settings_response(t, role, dbfail) ==
    IF ~require_admin(role) THEN Forbidden
    ELSE IF dbfail THEN Response(500, None, None)
    ELSE Response(200, Some(db_get_all_settings(t)), Audit("list", "success"))

\* The try block of GET /api/settings/{key}.
get_setting_try(t, key, dbfail) ==
    IF dbfail THEN RaiseError
    ELSE IF db_get_setting(t, key) = None THEN RaiseHTTP(404)
    ELSE Return(db_get_setting(t, key)[1])

\* Variant: only the generic handler, which also catches HTTPException.
get_setting_except_generic(out) == Response(500, None, None)

\* except HTTPException: raise / except Exception: raise HTTPException(500)
get_setting_except(out) ==
    IF out.kind = "HTTPException" THEN Response(out.status, None, None)
    ELSE Response(500, None, None)

\* GET /api/settings/{key}
get_setting_response(t, role, key, dbfail) ==
    IF ~require_admin(role) THEN Forbidden
    ELSE LET out == get_setting_try(t, key, dbfail)
         IN  IF out.kind = "return"
             THEN Response(200, Some(out.body), Audit("read", "success"))
             ELSE get_setting_except(out)

\* Variant: the handler without its require_admin call.
update_setting_response_unchecked(t, role, key, value, now, dbfail) ==
    IF dbfail
    THEN [ table |-> t,
           response |-> Response(500, None, Audit("update", "failed")) ]
    ELSE LET r == db_set_setting(t, key, value, now)
         IN  [ table |-> r.table,
               response |-> Response(200, Some(r.result),
                                     Audit("update", "success")) ]

\* PUT /api/settings/{key}: the table afterwards and the response.
update_setting_response(t, role, key, value, now, dbfail) ==
    IF ~require_admin(role) THEN [ table |-> t, response |-> Forbidden ]
    ELSE IF dbfail
    THEN [ table |-> t,
           response |-> Response(500, None, Audit("update", "failed")) ]
    ELSE LET r == db_set_setting(t, key, value, now)
         IN  [ table |-> r.table,
               response |-> Response(200, Some(r.result),
                                     Audit("update", "success")) ]

\* DELETE /api/settings/{key}: the table afterwards and the response.
delete_setting_response(t, role, key, dbfail) ==
    IF ~require_admin(role) THEN [ table |-> t, response |-> Forbidden ]
    ELSE IF dbfail
    THEN [ table |-> t,
           response |-> Response(500, None, Audit("delete", "failed")) ]
    ELSE LET r == db_delete_setting(t, key)
         IN  [ table |-> r.table,
               response |-> Response(200,
                              Some([ success |-> TRUE, deleted |-> r.result ]),
                              Audit("delete", "success")) ]

\* The record of a finished request.
Request(op, role, key, dbfail, resp) ==
    [ op |-> op, role |-> role, key |-> key, dbfail |-> dbfail,
      status |-> resp.status, body |-> resp.body, audit |-> resp.audit ]

GetAllSettings(role, dbfail) ==
    /\ last' = Request("get_all_settings", role, None, dbfail,
                       get_all_settings_response(settings, role, dbfail))
    /\ UNCHANGED << workspace, table, permission, clock, call, settings >>

GetSetting(role, key, dbfail) ==
    /\ last' = Request("get_setting", role, key, dbfail,
                       get_setting_response(settings, role, key, dbfail))
    /\ UNCHANGED << workspace, table, permission, clock, call, settings >>

\* value: body.value of the request.  displaced: the setting stored under the
\* key when the request arrived, kept with the record of the request.
UpdateSetting(role, key, value, dbfail) ==
    LET r == update_setting_response(settings, role, key, value, clock, dbfail)
    IN  /\ settings' = r.table
        /\ last' = [ value |-> value, displaced |-> db_get_setting(settings, key) ]
                     @@ Request("update_setting", role, key, dbfail, r.response)
        /\ UNCHANGED << workspace, table, permission, clock, call >>

DeleteSetting(role, key, dbfail) ==
    LET r == delete_setting_response(settings, role, key, dbfail)
    IN  /\ settings' = r.table
        /\ last' = Request("delete_setting", role, key, dbfail, r.response)
        /\ UNCHANGED << workspace, table, permission, clock, call >>


\* ------------------------------------------------------------------ files
\* File browser of src/src/backend/services/agent_service/files.py:
\* list_agent_files_logic and download_agent_file_logic.  A request passes
\* through its checks one step at a time; what each check finds (the access
\* decision, the container, its status after reload, the agent's answer) is
\* the environment's choice at that step.

FileOps == { "file_list", "file_download" }

\* container.status after container.reload()
ContainerStatuses == { "running", "exited" }

\* What the GET to the agent's internal file API gives: a response with a
\* status code (whose body is or is not JSON), httpx.TimeoutException, or
\* another exception such as a refused connection.
UpstreamOutcomes ==
    { [ kind |-> "response", code |-> c, json |-> j ] :
        c \in { 200, 404, 503 }, j \in BOOLEAN }
    \cup { [ kind |-> k, code |-> 0, json |-> FALSE ] : k \in { "timeout", "error" } }

\* What leaves the try block: kind, the status of an HTTPException, and the
\* audit events emitted so far.
FilesOutcome(kind, status, audit) ==
    [ kind |-> kind, status |-> status, audit |-> audit ]

\* The try block: the GET, then on 200 the success audit event and the body
\* (response.json() for the listing, response.text for the download), else
\* HTTPException(response.status_code).
files_try(op, up) ==
    IF up.kind = "timeout" THEN FilesOutcome("TimeoutException", 0, << >>)
    ELSE IF up.kind = "error" THEN FilesOutcome("Exception", 0, << >>)
    ELSE IF up.code = 200
    THEN IF op = "file_list" /\ ~up.json
         THEN FilesOutcome("Exception", 0, << "success" >>)
         ELSE FilesOutcome("return", 200, << "success" >>)
    ELSE FilesOutcome("HTTPException", up.code, << >>)

\* Variant: the except clauses without "except HTTPException: raise".
files_except_generic(out) ==
    IF out.kind = "return" THEN [ status |-> 200, audit |-> out.audit ]
    ELSE IF out.kind = "TimeoutException"
    THEN [ status |-> 504, audit |-> out.audit ]
    ELSE [ status |-> 500, audit |-> Append(out.audit, "error") ]

\* except httpx.TimeoutException: 504 / except HTTPException: raise /
\* except Exception: error audit event, 500
files_except(out) ==
    IF out.kind = "return" THEN [ status |-> 200, audit |-> out.audit ]
    ELSE IF out.kind = "TimeoutException"
    THEN [ status |-> 504, audit |-> out.audit ]
    ELSE IF out.kind = "HTTPException"
    THEN [ status |-> out.status, audit |-> out.audit ]
    ELSE [ status |-> 500, audit |-> Append(out.audit, "error") ]

\* The record of a finished file request: the response and what each check
\* that ran had found (None for a check that did not run).
FileRequest(op, status, audit, allowed, found, container_status, upstream) ==
    [ op |-> op, status |-> status, audit |-> audit, allowed |-> allowed,
      found |-> found, container_status |-> container_status,
      upstream |-> upstream ]

\* db.can_user_access_agent(current_user.username, agent_name)
FilesAccess(p, op, allowed) ==
    /\ call[p] = Idle
    /\ IF ~allowed
       THEN /\ last' = FileRequest(op, 403, << >>, FALSE, None, None, None)
            /\ call' = call
       ELSE /\ last' = NoCall
            /\ call' = [ call EXCEPT ![p] = [ pc |-> "container", op |-> op ] ]
    /\ UNCHANGED << workspace, table, permission, clock, settings >>

\* get_agent_container(agent_name)
FilesContainer(p, found) ==
    /\ call[p].pc = "container"
    /\ IF ~found
       THEN /\ last' = FileRequest(call[p].op, 404, << >>, TRUE, Some(FALSE),
                                   None, None)
            /\ call' = [ call EXCEPT ![p] = Idle ]
       ELSE /\ last' = NoCall
            /\ call' = [ call EXCEPT ![p].pc = "reload" ]
    /\ UNCHANGED << workspace, table, permission, clock, settings >>

\* container.reload() and the test of container.status
FilesReload(p, status) ==
    /\ call[p].pc = "reload"
    /\ IF status # "running"
       THEN /\ last' = FileRequest(call[p].op, 400, << >>, TRUE, Some(TRUE),
                                   Some(status), None)
            /\ call' = [ call EXCEPT ![p] = Idle ]
       ELSE /\ last' = NoCall
            /\ call' = [ call EXCEPT ![p].pc = "contact" ]
    /\ UNCHANGED << workspace, table, permission, clock, settings >>

\* The try block with its except clauses: the GET to the agent and the answer.
FilesContact(p, up) ==
    /\ call[p].pc = "contact"
    /\ LET r == files_except(files_try(call[p].op, up))
       IN  last' = FileRequest(call[p].op, r.status, r.audit, TRUE, Some(TRUE),
                               Some("running"), Some(up))
    /\ call' = [ call EXCEPT ![p] = Idle ]
    /\ UNCHANGED << workspace, table, permission, clock, settings >>


\* ------------------------------------------------------------------ trinity
\* Trinity injection of src/docker/base-image/agent_server/routers/trinity.py.
\* A text file is the sequence of its pieces: a heading, a run of whitespace
\* or a stretch of other text.  Substring tests for a heading, split on a
\* heading, rstrip and strip act on the pieces as they act on the string.

\* Longest CLAUDE.md, in pieces, that a behaviour writes.
MaxFileLen == 24

NL == "\n"
TrinityHeading == "## Trinity Agent System"
CustomHeading == "## Custom Instructions"

\* trinity_section: blank lines, the heading, the text below it, a newline.
trinity_section ==
    << NL, TrinityHeading, "This agent is part of the Trinity ...", NL >>

\* The minimal CLAUDE.md written when the file does not exist.
minimal_claude_md == << "# Agent", NL, "This agent is managed by Trinity.", NL >>

\* heading in content
Contains(content, heading) == \E i \in DOMAIN content : content[i] = heading

\* content.split(heading)[0]: the text before the first occurrence.
SplitHead(content, heading) ==
    IF ~Contains(content, heading) THEN content
    ELSE LET first == CHOOSE i \in DOMAIN content :
                        /\ content[i] = heading
                        /\ \A j \in 1..(i - 1) : content[j] # heading
         IN  SubSeq(content, 1, first - 1)

\* str.rstrip(): without the whitespace at the end.
RECURSIVE rstrip(_)
rstrip(content) ==
    IF content = << >> THEN << >>
    ELSE IF content[Len(content)] = NL
         THEN rstrip(SubSeq(content, 1, Len(content) - 1))
         ELSE content

\* str.strip(): without the whitespace at both ends.
RECURSIVE strip(_)
strip(content) ==
    IF content = << >> THEN << >>
    ELSE IF Head(content) = NL THEN strip(Tail(content))
         ELSE rstrip(content)

\* request.custom_prompt: None, blank, or text (with or without whitespace
\* around it).
CustomPrompts ==
    { None, Some(<< NL >>), Some(<< "p1" >>), Some(<< NL, "p2", NL >>) }

\* custom_section: empty unless the prompt is given and not blank.
custom_section(custom_prompt) ==
    IF custom_prompt # None /\ custom_prompt[1] # << >>
         /\ strip(custom_prompt[1]) # << >>
    THEN << NL, CustomHeading, NL >> \o strip(custom_prompt[1]) \o << NL >>
    ELSE << >>

\* The workspace directory and the meta-prompt mount.  mcp_json and claude_md
\* are None when the file does not exist.  A .mcp.json is valid (it parses to
\* an object) or not, has_key says that "mcpServers" is a key of it, and
\* servers are the names under that key.
Workspace(mounted, src_prompt, src_docs, mcp_json, claude_md) ==
    [ meta_prompt_mounted |-> mounted,   \* TRINITY_META_PROMPT_DIR.exists()
      meta_prompt_md      |-> src_prompt, \* prompt.md in the mount
      meta_vector_docs    |-> src_docs,   \* vector-memory.md in the mount
      trinity_dir         |-> FALSE,      \* .trinity
      prompt_md           |-> FALSE,      \* .trinity/prompt.md
      vector_memory_md    |-> FALSE,      \* .trinity/vector-memory.md
      vector_store        |-> FALSE,      \* vector-store
      commands_dir        |-> FALSE,      \* .claude/commands/trinity
      mcp_json            |-> mcp_json,
      claude_md           |-> claude_md ]

EmptyWorkspace == Workspace(FALSE, FALSE, FALSE, None, None)

McpConfig(valid, has_key, servers) ==
    [ valid |-> valid, has_key |-> has_key, servers |-> servers ]

\* check_trinity_injection_status
check_trinity_injection_status(w) ==
    LET files_prompt_md == w.trinity_dir /\ w.prompt_md
        chroma_mcp_configured ==
            /\ w.mcp_json # None
            /\ w.mcp_json[1].valid
            /\ "chroma" \in w.mcp_json[1].servers
        claude_md_has_trinity ==
            /\ w.claude_md # None
            /\ Contains(w.claude_md[1], TrinityHeading)
    IN  [ meta_prompt_mounted |-> w.meta_prompt_mounted,
          files |-> files_prompt_md,
          directories |-> w.vector_store,
          vector_memory_md |-> w.trinity_dir /\ w.vector_memory_md,
          chroma_mcp_configured |-> chroma_mcp_configured,
          claude_md_has_trinity_section |-> claude_md_has_trinity,
          injected |-> files_prompt_md /\ w.vector_store /\ claude_md_has_trinity ]

\* Step 4 of inject_trinity: add the chroma server to .mcp.json.  A file that
\* does not parse raises inside the inner try, which only logs a warning.
InjectChromaMcp(w) ==
    LET mcp_config == IF w.mcp_json # None THEN w.mcp_json[1]
                      ELSE McpConfig(TRUE, TRUE, {})
        servers    == IF mcp_config.has_key THEN mcp_config.servers ELSE {}
    IN  IF ~mcp_config.valid THEN w
        ELSE IF "chroma" \notin servers
        THEN [ w EXCEPT !.mcp_json =
                 Some(McpConfig(TRUE, TRUE, servers \cup { "chroma" })) ]
        ELSE w

\* Step 5 of inject_trinity: CLAUDE.md.  The test for the Trinity heading is
\* made on the text before the first Custom Instructions heading, while the
\* append (mode "a") goes to the file as it is on disk.
UpdateClaudeMd(w, custom_prompt) ==
    IF w.claude_md # None
    THEN LET original_content == w.claude_md[1]
             had_custom_instructions == Contains(original_content, CustomHeading)
             content == IF had_custom_instructions
                        THEN rstrip(SplitHead(original_content, CustomHeading))
                        ELSE original_content
         IN  IF ~Contains(content, TrinityHeading)
             THEN [ w EXCEPT !.claude_md =
                      Some(original_content \o trinity_section
                             \o custom_section(custom_prompt)) ]
             ELSE IF custom_section(custom_prompt) # << >> \/ had_custom_instructions
             THEN [ w EXCEPT !.claude_md =
                      Some(content \o custom_section(custom_prompt)) ]
             ELSE w
    ELSE [ w EXCEPT !.claude_md =
             Some(minimal_claude_md \o trinity_section
                    \o custom_section(custom_prompt)) ]

\* The steps of the try block of inject_trinity, in order.
InjectSteps ==
    << "mkdir_trinity", "copy_prompt", "mkdir_vector_store",
       "copy_vector_docs", "mcp_json", "claude_md" >>

\* What one step of inject_trinity does to the workspace.
InjectStep(step, w, custom_prompt) ==
    CASE step = "mkdir_trinity"      -> [ w EXCEPT !.trinity_dir = TRUE ]
      [] step = "copy_prompt"        ->
           IF w.meta_prompt_md THEN [ w EXCEPT !.prompt_md = TRUE ] ELSE w
      [] step = "mkdir_vector_store" -> [ w EXCEPT !.vector_store = TRUE ]
      [] step = "copy_vector_docs"   ->
           IF w.meta_vector_docs THEN [ w EXCEPT !.vector_memory_md = TRUE ] ELSE w
      [] step = "mcp_json"           -> InjectChromaMcp(w)
      [] step = "claude_md"          -> UpdateClaudeMd(w, custom_prompt)

\* The steps whose file operation can raise out of the try block: a copy that
\* is skipped and the guarded .mcp.json step cannot.
CanRaise(step, w) ==
    CASE step = "copy_prompt"      -> w.meta_prompt_md
      [] step = "copy_vector_docs" -> w.meta_vector_docs
      [] step = "mcp_json"         -> FALSE
      [] OTHER                     -> TRUE

\* The try block: the steps in order until the one that raises (fail), if any.
RECURSIVE RunInject(_, _, _, _)
RunInject(steps, w, custom_prompt, fail) ==
    IF steps = << >> THEN [ workspace |-> w, raised |-> FALSE ]
    ELSE IF Head(steps) = fail /\ CanRaise(fail, w)
         THEN [ workspace |-> w, raised |-> TRUE ]
         ELSE RunInject(Tail(steps), InjectStep(Head(steps), w, custom_prompt),
                        custom_prompt, fail)

\* Variant: the handler without the test for the mount.
NotMounted_unchecked(w) == FALSE

\* if not TRINITY_META_PROMPT_DIR.exists()
NotMounted(w) == ~w.meta_prompt_mounted

\* Variant: the handler injects again whatever the status says.
AlreadyInjected_unchecked(w, force) == FALSE

\* if current_status["injected"] and not request.force
AlreadyInjected(w, force) ==
    check_trinity_injection_status(w).injected /\ ~force

\* POST /api/trinity/inject: the workspace afterwards and the status of the
\* TrinityInjectResponse.  fail names the step whose file operation raises,
\* "none" if none does.
inject_trinity(w, force, custom_prompt, fail) ==
    IF NotMounted(w) THEN [ workspace |-> w, status |-> "error" ]
    ELSE IF AlreadyInjected(w, force)
    THEN [ workspace |-> w, status |-> "already_injected" ]
    ELSE LET r == RunInject(InjectSteps, w, custom_prompt, fail)
         IN  [ workspace |-> r.workspace,
               status |-> IF r.raised THEN "error" ELSE "injected" ]

\* The steps of the try block of reset_trinity, in order.
ResetSteps == << "rm_trinity", "rm_commands", "claude_md" >>

\* What one step of reset_trinity does to the workspace.
ResetStep(step, w) ==
    CASE step = "rm_trinity"  ->
           IF w.trinity_dir
           THEN [ w EXCEPT !.trinity_dir = FALSE, !.prompt_md = FALSE,
                           !.vector_memory_md = FALSE ]
           ELSE w
      [] step = "rm_commands" ->
           IF w.commands_dir THEN [ w EXCEPT !.commands_dir = FALSE ] ELSE w
      [] step = "claude_md"   ->
           IF w.claude_md # None /\ Contains(w.claude_md[1], TrinityHeading)
           THEN [ w EXCEPT !.claude_md =
                    Some(rstrip(SplitHead(w.claude_md[1], TrinityHeading))) ]
           ELSE w

\* A reset step can raise if it touches the file system.
ResetCanRaise(step, w) ==
    CASE step = "rm_trinity"  -> w.trinity_dir
      [] step = "rm_commands" -> w.commands_dir
      [] step = "claude_md"   -> w.claude_md # None

RECURSIVE RunReset(_, _, _)
RunReset(steps, w, fail) ==
    IF steps = << >> THEN [ workspace |-> w, raised |-> FALSE ]
    ELSE IF Head(steps) = fail /\ ResetCanRaise(fail, w)
         THEN [ workspace |-> w, raised |-> TRUE ]
         ELSE RunReset(Tail(steps), ResetStep(Head(steps), w), fail)

\* POST /api/trinity/reset: the workspace afterwards and the answer, "reset"
\* or the HTTPException with status 500.
reset_trinity(w, fail) ==
    LET r == RunReset(ResetSteps, w, fail)
    IN  [ workspace |-> r.workspace,
          status |-> IF r.raised THEN "500" ELSE "reset" ]

\* before: the workspace when the request arrived, kept with its record.
Inject(force, custom_prompt, fail) ==
    LET r == inject_trinity(workspace, force, custom_prompt, fail) IN
    /\ r.workspace.claude_md # None => Len(r.workspace.claude_md[1]) <= MaxFileLen
    /\ workspace' = r.workspace
    /\ last' = [ op |-> "inject", force |-> force,
                 custom_prompt |-> custom_prompt, fail |-> fail,
                 status |-> r.status, before |-> workspace ]
    /\ UNCHANGED << table, permission, clock, call, settings >>

\* injected_from: the workspace before the inject that this reset follows
\* directly, if the previous request was an inject answered "injected".
Reset(fail) ==
    LET r == reset_trinity(workspace, fail) IN
    /\ workspace' = r.workspace
    /\ last' = [ op |-> "reset", fail |-> fail, status |-> r.status,
                 before |-> workspace,
                 injected_from |->
                   IF last.op = "inject" /\ last.status = "injected"
                   THEN Some(last.before) ELSE None ]
    /\ UNCHANGED << table, permission, clock, call, settings >>

\* GET /api/trinity/status
TrinityStatus ==
    /\ last' = [ op |-> "status",
                 result |-> check_trinity_injection_status(workspace) ]
    /\ UNCHANGED << workspace, table, permission, clock, call, settings >>

\* ------------------------------------------------------------------ machine

Init ==
    /\ table = EmptyBag
    /\ permission \in PermissionChoices
    /\ clock = 0
    /\ call = [ p \in Procs |-> Idle ]
    /\ settings = EmptyBag
    /\ workspace = EmptyWorkspace
    /\ last = NoCall

\* No caller is inside upsert: the next call starts after the previous returned.
AllIdle == \A p \in Procs : call[p] = Idle

\* Spec: every operation of the registry and the resolver, with calls made one
\* after the other by any caller and the clock standing still (no query reads
\* a timestamp).  SpecRace, below, lets two callers overlap; SpecClock lets
\* time pass.
Next ==
    \/ \E p \in Procs, a \in AgentNames, e \in OptBool, c \in OptBool :
         AllIdle /\ UpsertSelect(p, a, e, c)
    \/ \E p \in Procs : UpsertUpdate(p)
    \/ \E p \in Procs : UpsertInsert(p)
    \/ \E a \in AgentNames : AllIdle /\ Delete(a)
    \/ \E a \in AgentNames : AllIdle /\ Get(a)
    \/ AllIdle /\ ListExposing
    \/ \E a \in AgentNames : \E failing \in FailChoices(a) :
         AllIdle /\ Available(a, failing)
    \/ \E s \in AgentNames : \E failing \in FailChoices(s) :
         AllIdle /\ Consumers(s, failing)

Spec == Init /\ [][Next]_vars

\* The agents two overlapping callers work on.
RaceAgents == { <<97>>, <<98>> }

InitRace ==
    /\ table = EmptyBag
    /\ permission = {}
    /\ clock = 0
    /\ call = [ p \in Procs |-> Idle ]
    /\ settings = EmptyBag
    /\ workspace = EmptyWorkspace
    /\ last = NoCall

\* Overlapping calls: a caller may run while another is between the SELECT and
\* the write of its upsert, and the storage layer may fail a write.
NextRace ==
    \/ \E p \in Procs, a \in RaceAgents, e \in OptBool, c \in OptBool :
         UpsertSelect(p, a, e, c)
    \/ \E p \in Procs : UpsertUpdate(p)
    \/ \E p \in Procs : UpsertInsert(p)
    \/ \E p \in Procs : UpsertCommitFails(p)
    \/ \E a \in RaceAgents : Delete(a)

SpecRace == InitRace /\ [][NextRace]_vars

\* Calls made one after the other while time passes between them: the
\* specification for what the registry does with created_at and updated_at.
NextClock ==
    \/ Tick
    \/ \E p \in Procs, a \in RaceAgents, e \in OptBool, c \in OptBool :
         AllIdle /\ UpsertSelect(p, a, e, c)
    \/ \E p \in Procs : UpsertUpdate(p)
    \/ \E p \in Procs : UpsertInsert(p)
    \/ \E a \in RaceAgents : AllIdle /\ Delete(a)
    \/ \E a \in RaceAgents : AllIdle /\ Get(a)

SpecClock == InitRace /\ [][NextClock]_vars

\* The naming helpers, called with every pair of names.
NextNaming ==
    \/ \E x \in NameInputs, y \in NameInputs : VolumeNames(x, y)
    \/ \E x \in NameInputs, y \in NameInputs : MountPaths(x, y)

SpecNaming == InitRace /\ [][NextNaming]_vars

\* The settings routes, called one request after the other by admins and
\* other users while time passes.
NextSettings ==
    \/ Tick
    \/ \E role \in Roles, dbfail \in BOOLEAN : GetAllSettings(role, dbfail)
    \/ \E role \in Roles, key \in SettingKeys, dbfail \in BOOLEAN :
         GetSetting(role, key, dbfail)
    \/ \E role \in Roles, key \in SettingKeys, value \in SettingValues,
          dbfail \in BOOLEAN : UpdateSetting(role, key, value, dbfail)
    \/ \E role \in Roles, key \in SettingKeys, dbfail \in BOOLEAN :
         DeleteSetting(role, key, dbfail)

SpecSettings == InitRace /\ [][NextSettings]_vars

\* File requests of two callers, each passing through its checks.
NextFiles ==
    \/ \E p \in Procs, op \in FileOps, allowed \in BOOLEAN :
         FilesAccess(p, op, allowed)
    \/ \E p \in Procs, found \in BOOLEAN : FilesContainer(p, found)
    \/ \E p \in Procs, status \in ContainerStatuses : FilesReload(p, status)
    \/ \E p \in Procs, up \in UpstreamOutcomes : FilesContact(p, up)

SpecFiles == InitRace /\ [][NextFiles]_vars

\* A workspace that was injected while the mount was there, by a version of
\* the server that also copied the commands to .claude/commands/trinity.
Injected(w) ==
    [ w EXCEPT !.trinity_dir = TRUE, !.prompt_md = TRUE, !.vector_store = TRUE,
               !.commands_dir = TRUE,
               !.claude_md = Some(minimal_claude_md \o trinity_section) ]

\* The workspaces a behaviour may start with: nothing injected yet; the mount
\* absent, complete, or without its two files; .mcp.json absent, unparsable,
\* without the mcpServers key, or with another server; CLAUDE.md absent,
\* plain, with a user-written Custom Instructions section, or with a Trinity
\* section already in it.  The server may also start without the mount on a
\* workspace that an earlier run injected.
InitialWorkspaces ==
    { Injected(Workspace(FALSE, FALSE, FALSE, None, None)) } \cup
    { Workspace(m[1], m[2], m[3], mcp, md) :
        m \in { << FALSE, FALSE, FALSE >>, << TRUE, TRUE, TRUE >>,
                << TRUE, FALSE, FALSE >> },
        mcp \in { None, Some(McpConfig(FALSE, FALSE, {})),
                  Some(McpConfig(TRUE, FALSE, {})),
                  Some(McpConfig(TRUE, TRUE, { "other" })) },
        md \in { None,
                 Some(<< "# My agent", NL >>),
                 Some(<< "# My agent", NL, CustomHeading, NL, "my rules", NL >>),
                 Some(<< "# My agent", NL, TrinityHeading, "my notes", NL >>) } }

InitTrinity ==
    /\ table = EmptyBag
    /\ permission = {}
    /\ clock = 0
    /\ call = [ p \in Procs |-> Idle ]
    /\ settings = EmptyBag
    /\ workspace \in InitialWorkspaces
    /\ last = NoCall

\* The reasons a file operation of inject or reset raises.
InjectFails == { "none", "mkdir_vector_store", "claude_md" }
ResetFails == { "none", "claude_md" }

\* Requests to the agent server's Trinity routes, one after the other.
NextTrinity ==
    \/ \E force \in BOOLEAN, custom_prompt \in CustomPrompts, fail \in InjectFails :
         Inject(force, custom_prompt, fail)
    \/ \E fail \in ResetFails : Reset(fail)
    \/ TrinityStatus

SpecTrinity == InitTrinity /\ [][NextTrinity]_vars

\* ------------------------------------------------------------------ claims

Range(s) == { s[i] : i \in DOMAIN s }

\* s lists its members once each, in ascending binary order of the names.
StrictlyAscending(s) ==
    \A i, j \in DOMAIN s : i < j => s[i] # s[j] /\ LexLE(s[i], s[j])

\* Agents with a row whose expose_enabled / consume_enabled flag is set.
ExposingSet(t) ==
    { a \in AgentNames : \E r \in RowsOf(t, a) : IntToBool(r.expose_enabled) }
ConsumingSet(t) ==
    { a \in AgentNames : \E r \in RowsOf(t, a) : IntToBool(r.consume_enabled) }

\* The value an upsert argument stands for, given the value it falls back to.
Provided(arg, fallback) == IF arg # None THEN arg[1] ELSE fallback

\* C1. Calls run one after the other.  An upsert on an agent that has a row
\* overwrites exactly the provided fields and leaves each unprovided field at
\* its stored value, in the stored row and in the returned config; so
\* upsert(A, expose=true) then upsert(A, consume=true) ends with both true.
C1_PartialUpdate ==
    [][ (last'.op = "upsert" /\ RowsOf(table, last'.agent_name) # {}) =>
          LET a == last'.agent_name
          IN  /\ ~last'.raised
              /\ RowsOf(table', a) # {}
              /\ \A old \in RowsOf(table, a) : \A new \in RowsOf(table', a) :
                   LET e == Provided(last'.expose_enabled, IntToBool(old.expose_enabled))
                       c == Provided(last'.consume_enabled, IntToBool(old.consume_enabled))
                   IN  /\ new.expose_enabled = BoolToInt(e)
                       /\ new.consume_enabled = BoolToInt(c)
                       /\ last'.result.expose_enabled = e
                       /\ last'.result.consume_enabled = c
                       /\ last'.result.agent_name = a ]_vars

\* C1 witness: upsert(A, consume=true) has just returned on a row whose expose
\* flag an earlier upsert had set: both flags are true, stored and returned.
C1_Witness ==
    /\ last.op = "upsert" /\ last.branch = "update"
    /\ last.expose_enabled = None /\ last.consume_enabled = Some(TRUE)
    /\ last.result.expose_enabled /\ last.result.consume_enabled
    /\ \E r \in RowsOf(table, last.agent_name) :
         r.expose_enabled = 1 /\ r.consume_enabled = 1

\* C2. Two overlapping upserts on an existing agent, one giving only expose and
\* then one giving only consume, commit one right after the other: the stored
\* row holds both given values (the second does not write back a stale expose).
C2_BothProvidedValuesKept ==
    [][ ( /\ last.op = "upsert" /\ last.branch = "update"
          /\ last.expose_enabled # None /\ last.consume_enabled = None
          /\ last'.op = "upsert" /\ last'.branch = "update"
          /\ last'.agent_name = last.agent_name
          /\ last'.expose_enabled = None /\ last'.consume_enabled # None ) =>
          \A r \in RowsOf(table', last'.agent_name) :
            /\ r.expose_enabled = BoolToInt(last.expose_enabled[1])
            /\ r.consume_enabled = BoolToInt(last'.consume_enabled[1]) ]_vars

\* C3. In every reachable state, under any interleaving of upserts and
\* deletes, the registry holds at most one row per agent_name.
C3_AtMostOneRow == \A a \in AgentNames : CountOf(table, a) <= 1

\* C3 witness: two first-time upserts of one agent both saw no row; the second
\* INSERT was refused and the agent has its single row.
C3_Witness ==
    /\ last.op = "upsert" /\ last.branch = "insert" /\ last.raised
    /\ CountOf(table, last.agent_name) = 1

\* C4. available_mounts(A), when it returns, is exactly the agents B with an
\* exposing row, B # A and is_permitted(A, B), in the order of
\* list_exposing_agents(); A itself is never in it.
C4_AvailableMounts ==
    (last.op = "available" /\ ~last.result.raised) =>
        LET A   == last.agent_name
            res == last.result.value
        IN  /\ Range(res) = { B \in ExposingSet(table) :
                                B # A /\ << A, B >> \in permission }
            /\ res = SelectSeq(get_agents_exposing_folders(table),
                               LAMBDA B : B \in Range(res))
            /\ StrictlyAscending(res)
            /\ A \notin Range(res)

\* C4 witness: A exposes and is permitted to itself, and available_mounts(A)
\* returned the two other exposing agents.
C4_Witness ==
    /\ last.op = "available" /\ ~last.result.raised
    /\ last.agent_name \in ExposingSet(table)
    /\ << last.agent_name, last.agent_name >> \in permission
    /\ Len(last.result.value) = 2

\* C5. consumers_of(S), when it returns, is exactly the agents C with a
\* consuming row, C # S and is_permitted(C, S), in ascending order; S's own row
\* plays no part: the result is that of the registry without S's row.
C5_ConsumersOf ==
    (last.op = "consumers" /\ ~last.result.raised) =>
        LET S   == last.agent_name
            res == last.result.value
        IN  /\ Range(res) = { C \in ConsumingSet(table) :
                                C # S /\ << C, S >> \in permission }
            /\ StrictlyAscending(res)
            /\ last.result = get_consuming_agents(SqlDelete(table, S), permission,
                                                  last.failing, S)

\* C5 witness: S has no row and consumers_of(S) returned two agents, one of
\* which S itself is not permitted to call.
C5_Witness ==
    /\ last.op = "consumers" /\ ~last.result.raised
    /\ RowsOf(table, last.agent_name) = {}
    /\ Len(last.result.value) = 2
    /\ \E C \in Range(last.result.value) : << last.agent_name, C >> \notin permission

\* The candidates whose permission lookup a query performs.
LookedUp(t, op, a) ==
    IF op = "available" THEN ExposingSet(t) \ { a } ELSE ConsumingSet(t) \ { a }
LookupPair(op, a, cand) ==
    IF op = "available" THEN << a, cand >> ELSE << cand, a >>

C7_SameDirection ==
    /\ (last.op = "consumers" /\ ~last.result.raised) =>
         \A B \in ConsumingSet(table) \ { last.agent_name } :
           LET A == last.agent_name IN
           A \in ExposingSet(table) =>
             /\ (B \in Range(last.result.value)) = (<< B, A >> \in permission)
             /\ (B \in Range(last.result.value)) =
                  (A \in Range(get_available_shared_folders(table, permission, {}, B).value))
    /\ (last.op = "available" /\ ~last.result.raised) =>
         \A A \in ExposingSet(table) \ { last.agent_name } :
           LET B == last.agent_name IN
           B \in ConsumingSet(table) =>
             /\ (A \in Range(last.result.value)) = (<< B, A >> \in permission)
             /\ (A \in Range(last.result.value)) =
                  (B \in Range(get_consuming_agents(table, permission, {}, A).value))

\* C7 witness: B consumes, A exposes, B may call A but A may not call B, and
\* available_mounts(B) returned A.
C7_Witness ==
    /\ last.op = "available" /\ ~last.result.raised
    /\ last.agent_name \in ConsumingSet(table)
    /\ \E A \in ExposingSet(table) \ { last.agent_name } :
         /\ A \in Range(last.result.value)
         /\ << A, last.agent_name >> \notin permission

\* C8. list_exposing_agents() returns the agents with an exposing row, each
\* once, in ascending order; a second call right after returns the same list.
C8_ListExposing ==
    [][ last'.op = "list" =>
          /\ Range(last'.result) = ExposingSet(table')
          /\ StrictlyAscending(last'.result)
          /\ last.op = "list" => last'.result = last.result ]_vars

\* C8 witness: the listing holds two agents while a third agent has a row that
\* does not expose.
C8_Witness ==
    /\ last.op = "list" /\ Len(last.result) = 2
    /\ \E a \in AgentNames : RowsOf(table, a) # {} /\ a \notin ExposingSet(table)

\* C9. delete(A) returns true exactly when A had a row, leaves no row of A,
\* and returns false when it follows a delete(A) directly.
C9_DeleteIdempotent ==
    [][ last'.op = "delete" =>
          LET a == last'.agent_name
          IN  /\ last'.result = (RowsOf(table, a) # {})
              /\ RowsOf(table', a) = {}
              /\ (last.op = "delete" /\ last.agent_name = a) => last'.result = FALSE
       ]_vars

\* C9 witness: delete(A) returned true, A has no row and another agent has one.
C9_Witness ==
    /\ last.op = "delete" /\ last.result = TRUE
    /\ RowsOf(table, last.agent_name) = {}
    /\ Rows(table) # {}

\* C10. Calls run one after the other.  An upsert on an agent without a row
\* creates one row: provided fields as given, unprovided fields false; the
\* returned config equals that row.
C10_CreateDefaults ==
    [][ (last'.op = "upsert" /\ RowsOf(table, last'.agent_name) = {}) =>
          LET a == last'.agent_name
              e == Provided(last'.expose_enabled, FALSE)
              c == Provided(last'.consume_enabled, FALSE)
              r == last'.result
          IN  /\ ~last'.raised
              /\ CountOf(table', a) = 1
              /\ RowsOf(table', a) =
                   { Row(a, BoolToInt(e), BoolToInt(c), r.created_at, r.updated_at) }
              /\ r.agent_name = a
              /\ r.expose_enabled = e
              /\ r.consume_enabled = c ]_vars

\* C10 witness: upsert(A, consume=true) created A's row with expose false, at
\* a time after the clock's start.
C10_Witness ==
    /\ last.op = "upsert" /\ last.branch = "insert" /\ ~last.raised
    /\ last.expose_enabled = None /\ last.consume_enabled = Some(TRUE)
    /\ \E r \in RowsOf(table, last.agent_name) :
         r.expose_enabled = 0 /\ r.consume_enabled = 1 /\ r.created_at > 0

\* The registry with an all-false row added for every agent that has none.
WithDefaultRows(t) ==
    t (+) SetToBag({ Row(a, 0, 0, 0, 0) : a \in { x \in AgentNames : RowsOf(t, x) = {} } })

\* C11. An agent without a row: get returns None, and the agent is in no
\* listing, no available_mounts and no consumers_of result; every query
\* answers as it would if the agent's row were {expose: false, consume: false}.
C11_DefaultClosed ==
    /\ \A a \in AgentNames : RowsOf(table, a) = {} =>
         /\ (last.op = "get" /\ last.agent_name = a) => last.result = None
         /\ last.op = "list" => a \notin Range(last.result)
         /\ (last.op \in { "available", "consumers" } /\ ~last.result.raised) =>
              a \notin Range(last.result.value)
    /\ last.op = "list" =>
         last.result = get_agents_exposing_folders(WithDefaultRows(table))
    /\ last.op = "available" =>
         last.result = get_available_shared_folders(WithDefaultRows(table), permission,
                                                    last.failing, last.agent_name)
    /\ last.op = "consumers" =>
         last.result = get_consuming_agents(WithDefaultRows(table), permission,
                                            last.failing, last.agent_name)

\* C11 witness: get(A) returned None for an agent without a row that every
\* agent is permitted to call, while another agent has a row.
C11_Witness ==
    /\ last.op = "get" /\ last.result = None
    /\ RowsOf(table, last.agent_name) = {}
    /\ \A x \in AgentNames : << x, last.agent_name >> \in permission
    /\ Rows(table) # {}

\* C13. Callers overlap.  An upsert(A) or delete(A) step leaves the rows of
\* every other agent as they were: presence, flags and both timestamps.
C13_OtherRowsUntouched ==
    [][ last'.op \in { "upsert", "delete" } =>
          \A B \in AgentNames \ { last'.agent_name } :
            /\ RowsOf(table', B) = RowsOf(table, B)
            /\ CountOf(table', B) = CountOf(table, B) ]_vars

\* C13 witness: an upsert on A has written while another caller is between the
\* SELECT and the write of its upsert on B, and B's row differs from A's flags.
C13_Witness ==
    /\ last.op = "upsert" /\ last.branch = "update" /\ ~last.raised
    /\ \E p \in Procs : /\ call[p].pc = "selected"
                        /\ call[p].agent_name # last.agent_name
    /\ \E r \in Rows(table) :
         /\ r.agent_name # last.agent_name
         /\ r.expose_enabled # BoolToInt(last.result.expose_enabled)

\* C14. get, list_exposing_agents, available_mounts and consumers_of change no
\* row and store nothing; no operation changes the permission relation.
C14_PureQueries ==
    [][ /\ last'.op \in { "get", "list", "available", "consumers" } =>
             table' = table /\ call' = call /\ settings' = settings
        /\ permission' = permission ]_vars

\* C14 witness: available_mounts returned a non-empty list for an agent that
\* has no row of its own.
C14_Witness ==
    /\ last.op = "available" /\ ~last.result.raised
    /\ last.result.value # << >>
    /\ RowsOf(table, last.agent_name) = {}

\* C15. Calls run one after the other while time passes.  An upsert sets
\* updated_at to the time its call read, also when it changes no flag; a new
\* row gets that time as created_at and an existing row keeps its created_at;
\* so updated_at >= created_at.
C15_Timestamps ==
    [][ (last'.op = "upsert" /\ ~last'.raised) =>
          LET a   == last'.agent_name
              now == (CHOOSE f \in { call[p] : p \in Procs } : f.pc = "selected").now
          IN  /\ last'.result.updated_at = now
              /\ RowsOf(table', a) # {}
              /\ \A new \in RowsOf(table', a) :
                   /\ new.updated_at = now
                   /\ new.updated_at >= new.created_at
                   /\ new.created_at = last'.result.created_at
                   /\ RowsOf(table, a) = {} => new.created_at = now
                   /\ \A old \in RowsOf(table, a) : new.created_at = old.created_at
       ]_vars

\* C15 witness: an upsert that gave no flag has refreshed updated_at of a row
\* created earlier.
C15_Witness ==
    /\ last.op = "upsert" /\ last.branch = "update"
    /\ last.expose_enabled = None /\ last.consume_enabled = None
    /\ \E r \in RowsOf(table, last.agent_name) : r.updated_at > r.created_at

\* C12. Callers overlap and the storage layer may fail.  Whenever an upsert
\* returns a config, the agent has a row with the returned expose_enabled and
\* consume_enabled, committed by that call.
C12_ReturnedMeansCommitted ==
    (last.op = "upsert" /\ ~last.raised) =>
        \E r \in RowsOf(table, last.agent_name) :
          /\ IntToBool(r.expose_enabled) = last.result.expose_enabled
          /\ IntToBool(r.consume_enabled) = last.result.consume_enabled

\* C16. The volume name of X is "agent-" followed by X followed by "-shared",
\* the mount path of X is "/home/developer/shared-in/" followed by X, and two
\* distinct names never get the same volume name or the same mount path.
C16_Naming ==
    /\ last.op = "volume_name" =>
         /\ \A n \in { << last.x, last.of_x >>, << last.y, last.of_y >> } :
              /\ Len(n[2]) = 6 + Len(n[1]) + 7
              /\ SubSeq(n[2], 1, 6) = VolumePrefix
              /\ SubSeq(n[2], 7, 6 + Len(n[1])) = n[1]
              /\ SubSeq(n[2], 7 + Len(n[1]), Len(n[2])) = VolumeSuffix
         /\ last.x # last.y => last.of_x # last.of_y
    /\ last.op = "mount_path" =>
         /\ \A n \in { << last.x, last.of_x >>, << last.y, last.of_y >> } :
              /\ Len(n[2]) = 26 + Len(n[1])
              /\ SubSeq(n[2], 1, 26) = MountPrefix
              /\ SubSeq(n[2], 27, Len(n[2])) = n[1]
         /\ last.x # last.y => last.of_x # last.of_y

\* A helper was called with two distinct names of different lengths that
\* start with the same character.
C16_Witness ==
    /\ last.op \in { "volume_name", "mount_path" }
    /\ last.x # last.y
    /\ Head(last.x) = Head(last.y)
    /\ Len(last.x) # Len(last.y)

\* The entries of a list of settings that carry the key.
EntriesOf(list, key) == { i \in DOMAIN list : list[i].key = key }

\* C17. After a PUT of value v for a key is answered 200, whether or not the
\* key was stored before and whatever it held: the response carries v, a GET
\* of the key returns v, and the list of all settings has exactly one entry
\* for the key, with value v.  A GET that returns a setting returns the
\* stored one.
C17_PutThenGet ==
    [][ /\ (last'.op = "update_setting" /\ last'.status = 200) =>
             LET k    == last'.key
                 v    == last'.value
                 get  == get_setting_response(settings', "admin", k, FALSE)
                 list == db_get_all_settings(settings')
             IN  /\ last'.body = Some(SettingRow(k, v, clock))
                 /\ get.status = 200
                 /\ get.body[1].key = k
                 /\ get.body[1].value = v
                 /\ Cardinality(EntriesOf(list, k)) = 1
                 /\ \A i \in EntriesOf(list, k) : list[i].value = v
        /\ (last'.op = "get_setting" /\ last'.status = 200) =>
             /\ SumCopies(settings', SettingRows(settings', last'.key)) = 1
             /\ \A r \in SettingRows(settings', last'.key) :
                  last'.body = Some(_row_to_setting(r)) ]_vars

\* A PUT answered 200 that replaced a different value stored under the key,
\* while the other key is stored too.
C17_Witness ==
    /\ last.op = "update_setting"
    /\ last.status = 200
    /\ last.displaced # None
    /\ last.displaced[1].value # last.value
    /\ \E r \in Rows(settings) : r.key # last.key

\* C18. A DELETE by an admin that the storage layer completes is answered
\* 200 with success, with deleted = true exactly if the key was stored;
\* afterwards the key is not stored and a GET of it is answered 404.  No
\* DELETE changes the rows of another key.
C18_DeleteSetting ==
    [][ last'.op = "delete_setting" =>
          LET k == last'.key IN
          /\ (last'.role = "admin" /\ ~last'.dbfail) =>
               /\ last'.status = 200
               /\ last'.body[1].success = TRUE
               /\ last'.body[1].deleted = (SettingRows(settings, k) # {})
               /\ SettingRows(settings', k) = {}
               /\ get_setting_response(settings', "admin", k, FALSE).status = 404
          /\ \A o \in SettingKeys \ { k } :
               /\ SettingRows(settings', o) = SettingRows(settings, o)
               /\ SumCopies(settings', SettingRows(settings', o))
                    = SumCopies(settings, SettingRows(settings, o)) ]_vars

\* An admin's DELETE of a stored key was answered deleted = true while the
\* other key stays stored.
C18_Witness ==
    /\ last.op = "delete_setting"
    /\ last.role = "admin"
    /\ last.status = 200
    /\ last.body[1].deleted
    /\ Rows(settings) # {}

\* C19. A GET of a key by an admin is answered 404 only if the key is not
\* stored; when the storage layer completes the lookup it is answered 404 if
\* the key is not stored and 200 if it is; it is answered 500 only when the
\* storage layer raised, never for a missing key.
C19_NotFoundPassedThrough ==
    (last.op = "get_setting" /\ last.role = "admin") =>
        LET stored == SettingRows(settings, last.key) # {} IN
        /\ last.status \in { 200, 404, 500 }
        /\ last.status = 404 => ~stored
        /\ ~last.dbfail => (last.status = 404 <=> ~stored)
        /\ ~last.dbfail => (last.status = 200 <=> stored)
        /\ last.status = 500 <=> last.dbfail

\* An admin's GET of a key that is not stored, while another key is, was
\* answered 404.
C19_Witness ==
    /\ last.op = "get_setting"
    /\ last.role = "admin"
    /\ last.status = 404
    /\ SettingRows(settings, last.key) = {}
    /\ Rows(settings) # {}

\* C20. PUT and DELETE by a user who is not an admin are refused (403), and
\* GET /api/settings and GET /api/settings/{key} are not refused to any
\* authenticated user, whatever the role.
C20_ReadForEveryUser ==
    /\ (last.op \in { "update_setting", "delete_setting" }
          /\ last.role # "admin") => last.status = 403
    /\ last.op \in { "get_setting", "get_all_settings" } => last.status # 403

\* C21. A PUT or DELETE of a setting by a user who is not an admin is answered
\* 403, leaves the stored settings as they were and emits no audit event.
C21_NonAdminWriteRefused ==
    [][ (last'.op \in { "update_setting", "delete_setting" }
           /\ last'.role # "admin") =>
          /\ last'.status = 403
          /\ settings' = settings
          /\ last'.audit = None ]_vars

\* A non-admin's PUT of a value other than the stored one, or a non-admin's
\* DELETE of a stored key, was refused and the setting is still stored.
C21_Witness ==
    /\ last.op \in { "update_setting", "delete_setting" }
    /\ last.role = "user"
    /\ last.status = 403
    /\ \E r \in SettingRows(settings, last.key) :
         last.op = "update_setting" => r.value # last.value

\* C29. Calls run one after the other.  delete(A) leaves no row of A; a row of
\* A appears only by an upsert(A); and no resolver result names an agent that
\* has no row, whatever the Permission Directory holds for it.  So from a
\* delete(A) to the next upsert(A) no result contains A.
C29_DeletedAgentHidden ==
    [][ LET NoRow == { A \in AgentNames : RowsOf(table', A) = {} } IN
        /\ last'.op = "delete" => last'.agent_name \in NoRow
        /\ \A A \in AgentNames :
             (RowsOf(table, A) = {} /\ RowsOf(table', A) # {}) =>
                 last'.op = "upsert" /\ last'.agent_name = A
        /\ last'.op = "list" => Range(last'.result) \cap NoRow = {}
        /\ (last'.op \in { "available", "consumers" } /\ ~last'.result.raised) =>
             Range(last'.result.value) \cap NoRow = {} ]_vars

\* A resolver query returned other agents while an agent without a row is
\* permitted in both directions with the asking agent.
C29_Witness ==
    /\ last.op \in { "available", "consumers" }
    /\ ~last.result.raised
    /\ last.result.value # << >>
    /\ \E A \in AgentNames \ { last.agent_name } :
         /\ RowsOf(table, A) = {}
         /\ << A, last.agent_name >> \in permission
         /\ << last.agent_name, A >> \in permission

\* C26. A file listing or download contacts the agent only after the access
\* check, the container lookup and the running test passed, in that order:
\* a refused user gets 403 before the container is looked up, a missing
\* container gives 404 before its status is read, a container that is not
\* running gives 400 before the agent is contacted.  A success audit event is
\* emitted only if the agent answered 200; another status of the agent is the
\* status of the response, with no audit event; a timeout gives 504.
C26_FileRequestOrder ==
    last.op \in FileOps =>
        LET up == last.upstream IN
        /\ up # None =>
             /\ last.allowed
             /\ last.found = Some(TRUE)
             /\ last.container_status = Some("running")
        /\ ~last.allowed =>
             last.status = 403 /\ last.found = None /\ up = None
        /\ last.found = Some(FALSE) =>
             last.status = 404 /\ last.container_status = None /\ up = None
        /\ (last.container_status # None
              /\ last.container_status # Some("running")) =>
             last.status = 400 /\ up = None
        /\ (\E i \in DOMAIN last.audit : last.audit[i] = "success") =>
             up # None /\ up[1].kind = "response" /\ up[1].code = 200
        /\ (up # None /\ up[1].kind = "response" /\ up[1].code # 200) =>
             last.status = up[1].code /\ last.audit = << >>
        /\ (up # None /\ up[1].kind = "timeout") => last.status = 504

\* The agent answered 503 to a request that had passed the three checks, and
\* the response is 503.
C26_Witness ==
    /\ last.op \in FileOps
    /\ last.upstream # None
    /\ last.upstream[1].kind = "response"
    /\ last.upstream[1].code = 503
    /\ last.status = 503

\* Number of occurrences of a heading in a text.
Occurrences(content, heading) ==
    Cardinality({ i \in DOMAIN content : content[i] = heading })

\* C25. Without the meta-prompt mount an inject request is answered "error"
\* and changes nothing in the workspace, whatever force is and whether or not
\* the workspace is injected.
C25_NotMountedNoChange ==
    [][ (last'.op = "inject" /\ ~workspace.meta_prompt_mounted) =>
          /\ last'.status = "error"
          /\ workspace' = workspace ]_vars

\* A forced inject with a custom prompt on an injected workspace without the
\* mount was answered "error".
C25_Witness ==
    /\ last.op = "inject"
    /\ ~workspace.meta_prompt_mounted
    /\ last.force
    /\ custom_section(last.custom_prompt) # << >>
    /\ check_trinity_injection_status(workspace).injected
    /\ last.status = "error"

\* C24 as claimed. An inject request without force on a workspace whose
\* status reports injected is answered "already_injected" and changes
\* nothing in the workspace.
C24_AlreadyInjectedNoOp ==
    [][ (last'.op = "inject" /\ ~last'.force
           /\ check_trinity_injection_status(workspace).injected) =>
          /\ last'.status = "already_injected"
          /\ workspace' = workspace ]_vars

\* C24. With the meta-prompt mount present, an inject request without force
\* on a workspace whose status reports injected is answered
\* "already_injected" and changes nothing in the workspace, custom prompt or
\* not; without the mount it is answered "error" and changes nothing either.
C24_AlreadyInjectedNoOpIfMounted ==
    [][ (last'.op = "inject" /\ ~last'.force
           /\ check_trinity_injection_status(workspace).injected) =>
          /\ last'.status = IF workspace.meta_prompt_mounted
                            THEN "already_injected" ELSE "error"
          /\ workspace' = workspace ]_vars

\* An inject without force that carries a custom prompt other than the one in
\* CLAUDE.md was answered "already_injected".
C24_Witness ==
    /\ last.op = "inject"
    /\ ~last.force
    /\ last.status = "already_injected"
    /\ custom_section(last.custom_prompt) # << >>
    /\ \A i \in DOMAIN workspace.claude_md[1] :
         workspace.claude_md[1][i] \notin Range(strip(last.custom_prompt[1]))

\* C28. When an inject request is answered "injected", the status reports
\* injected: .trinity/prompt.md and vector-store exist and CLAUDE.md has the
\* Trinity heading.
C28_InjectedMeansInjected ==
    (last.op = "inject" /\ last.status = "injected") =>
        check_trinity_injection_status(workspace).injected

\* C27. CLAUDE.md never holds the Trinity heading more than once.
C27_OneTrinityHeading ==
    workspace.claude_md # None =>
        Occurrences(workspace.claude_md[1], TrinityHeading) <= 1

\* C23. A reset answered "reset" that directly follows an inject answered
\* "injected" leaves nothing of what the inject made: no .trinity directory,
\* no vector-store directory unless it was there before the inject, no chroma
\* server in .mcp.json unless it was there before, and no Trinity heading in
\* CLAUDE.md.
C23_ResetUndoesInject ==
    (last.op = "reset" /\ last.status = "reset" /\ last.injected_from # None) =>
        LET old == last.injected_from[1] IN
        /\ ~workspace.trinity_dir
        /\ workspace.vector_store => old.vector_store
        /\ check_trinity_injection_status(workspace).chroma_mcp_configured =>
             check_trinity_injection_status(old).chroma_mcp_configured
        /\ ~check_trinity_injection_status(workspace).claude_md_has_trinity_section

\* The text ends with the Trinity section followed by the Custom Instructions
\* section of prompt q, as an inject with that prompt writes them.
EndsWithSections(content, q) ==
    LET tail == trinity_section \o custom_section(q)
    IN  /\ custom_section(q) # << >>
        /\ Len(content) >= Len(tail)
        /\ SubSeq(content, Len(content) - Len(tail) + 1, Len(content)) = tail

\* C22. A forced inject answered "injected", following an inject that wrote
\* the Trinity section and then a Custom Instructions section, leaves
\* CLAUDE.md with the new request's custom instructions only: with a
\* non-blank prompt there is one Custom Instructions heading and the file
\* ends with that section; with no prompt there is no such heading and
\* nothing of the old prompt.
C22_CustomInstructionsReplaced ==
    [][ (/\ last.op = "inject" /\ last.status = "injected"
         /\ workspace.claude_md # None
         /\ EndsWithSections(workspace.claude_md[1], last.custom_prompt)
         /\ last'.op = "inject" /\ last'.force /\ last'.status = "injected") =>
          LET md  == workspace'.claude_md[1]
              new == custom_section(last'.custom_prompt)
              old == Range(strip(last.custom_prompt[1]))
          IN  IF new # << >>
              THEN /\ Occurrences(md, CustomHeading) = 1
                   /\ Len(md) >= Len(new)
                   /\ SubSeq(md, Len(md) - Len(new) + 1, Len(md)) = new
                   /\ old \cap Range(md) \subseteq Range(new)
              ELSE /\ Occurrences(md, CustomHeading) = 0
                   /\ old \cap Range(md) = {} ]_vars

====
